---- MODULE Spec2Model ----
(***************************************************************************)
(* Verification model of cargo-cache's cache accounting and of its         *)
(* dependency-driven garbage collector.                                    *)
(*                                                                         *)
(*   src/src/cache/registry_index.rs  RegistryIndexCache (a CacheEntry)    *)
(*   src/src/clear_unref.rs           clear_unref and its path resolution  *)
(*                                                                         *)
(*   src/src/dirsizes.rs              DirSizes::new and new_manually       *)
(*                                                                         *)
(* Five specifications share the module:                                   *)
(*   Spec         one RegistryIndexCache over a changing disk              *)
(*   SpecGC       clear_unref over a cargo home that other processes change*)
(*   SpecResolve  the path resolution of clear_unref as a pure function    *)
(*   SpecDirSizes the snapshot DirSizes::new, the constructor new_manually *)
(*                and the default summary over the six category caches     *)
(*   SpecRegistries the per-registry breakdown registries_seperate         *)
(***************************************************************************)
EXTENDS Integers, Sequences, FiniteSets, TLC

VARIABLES
    \* ---- Spec: RegistryIndexCache -------------------------------------
    disk,       \* the on-disk state of the entry's root path
    entry,      \* the RegistryIndexCache struct (path, total_size, files_calculated, files)
    op,         \* the call that produced the current state
    ret,        \* value returned by the last total_size() call
    walks,      \* number of disk walks performed by the last call
    prevRet,    \* value returned by the previous total_size() since the last invalidate()
    sizeCalls,  \* total_size() calls returned since the last invalidate()/new(), capped
    afterInv,   \* an invalidate() has happened and no new() since
    sizeObs,    \* the listing whose entries were summed into the memoized total_size
    aborted,    \* the process has panicked
    \* ---- SpecGC: clear_unref ------------------------------------------
    home,       \* the cargo home on disk: bare repos, archives, checkouts, sources
    memo,       \* memoized total sizes of the four caches handed to clear_unref
    size_changed, \* the caller's size_changed flag
    gc,         \* record of the last clear_unref invocation
    \* ---- SpecResolve --------------------------------------------------
    rin,        \* input: cache root and structured manifest location
    rout,       \* output of the resolution
    \* ---- SpecDirSizes -------------------------------------------------
    caches,     \* what each of the six category caches reports: size and file number
    overflow_checks, \* the build panics on integer overflow (debug) or wraps (release)
    snap,       \* DirSizes::new in progress: running and finished branches, the sizes
                \* and numbers they read, total_size() requests per cache
    report,     \* the DirSizes built by DirSizes::new
    manual,     \* the DirSizes built by new_manually
    shown,      \* the table the default summary was formatted from
    \* ---- SpecRegistries ------------------------------------------------
    registry_caches, \* the index, archive and source collections with their entries
    regsnap,    \* the registry total of the snapshot taken by DirSizes::new
    breakdown   \* what registries_seperate returned

entryVars == <<disk, entry, op, ret, walks, prevRet, sizeCalls, afterInv, sizeObs, aborted>>
gcVars == <<home, memo, size_changed, gc>>
resolveVars == <<rin, rout>>
dirVars == <<caches, overflow_checks, snap, report, manual, shown>>
regVars == <<registry_caches, regsnap, breakdown>>
vars == <<entryVars, gcVars, resolveVars, dirVars, regVars>>

(***************************************************************************)
(* Bounds of the model.                                                    *)
(***************************************************************************)
MaxFileLen == 2     \* byte lengths of directory entries range over 1..MaxFileLen
MaxSizeCalls == 2   \* cap of the sizeCalls counter
U64Max == 3         \* u64::MAX of the model: u64 values range over 0..U64Max
MaxNonEmpty == 2    \* at most this many of the six category caches hold bytes

\* Option<u64>::None
None == -1

\* File names that can exist below the root of the entry; "." is the root itself.
Names == {"a", "b"}
RootPath == "."

(***************************************************************************)
(* The disk below RegistryIndexCache.path.                                 *)
(*   kind      "missing" | "dir" | "file"                                  *)
(*   len       byte length that fs::metadata reports for the root itself   *)
(*   children  byte length of each file in the root directory, None when   *)
(*             the file does not exist                                     *)
(***************************************************************************)
NoChildren == [n \in Names |-> None]
MissingDisk == [kind |-> "missing", len |-> 0, children |-> NoChildren]
DiskStates ==
    {MissingDisk}
    \cup {[kind |-> "file", len |-> l, children |-> NoChildren] : l \in 1..MaxFileLen}
    \cup {[kind |-> "dir", len |-> l, children |-> c] :
            l \in 1..MaxFileLen, c \in [Names -> {None} \cup 1..MaxFileLen]}

\* Path::exists
path_exists(d) == d.kind # "missing"
\* Path::is_dir
is_dir(d) == d.kind = "dir"

\* fs::metadata(f).len(), None when metadata fails (the path does not exist)
MetadataLen(d, p) ==
    IF p = RootPath
    THEN (IF path_exists(d) THEN d.len ELSE None)
    ELSE (IF is_dir(d) THEN d.children[p] ELSE None)

\* The names in s, in the fixed traversal order of the model.
SortedNames(s) ==
    (IF "a" \in s THEN <<"a">> ELSE <<>>) \o (IF "b" \in s THEN <<"b">> ELSE <<>>)

\* WalkDir::new(path).into_iter(): the root itself first, then everything
\* below it; directories are yielded like files.
WalkDir(d) ==
    IF is_dir(d)
    THEN <<RootPath>> \o SortedNames({n \in Names : d.children[n] # None})
    ELSE <<RootPath>>

RECURSIVE SumLen(_, _)
SumLen(d, fs) ==
    IF fs = <<>> THEN 0 ELSE MetadataLen(d, Head(fs)) + SumLen(d, Tail(fs))

Range(s) == {s[i] : i \in DOMAIN s}

(***************************************************************************)
(* RegistryIndexCache                                                      *)
(***************************************************************************)
new == [path |-> RootPath, total_size |-> None, files_calculated |-> FALSE,
        files |-> <<>>]

\* invalidate() that clears the listing flag but leaves the memoized size
invalidate_keeps_size(e) == [e EXCEPT !.files_calculated = FALSE]

\* invalidate(): the struct after the call
invalidate(e) == [e EXCEPT !.total_size = None, !.files_calculated = FALSE]

\* files() that leaves the old listing in place when the root is missing
files_keep_listing(e, d) ==
    IF e.files_calculated
    THEN e
    ELSE IF path_exists(d)
         THEN [e EXCEPT !.files = WalkDir(d)]
         ELSE e

\* files(): the struct after the call; the returned slice is its files field.
\* files_calculated is read but never set by the code.
files(e, d) ==
    IF e.files_calculated
    THEN e
    ELSE IF path_exists(d)
         THEN [e EXCEPT !.files = WalkDir(d)]
         ELSE [e EXCEPT !.files = <<>>]

\* 1 when files() walks the disk
files_walks(e, d) == IF ~e.files_calculated /\ path_exists(d) THEN 1 ELSE 0

\* The disk as the stat phase of total_size() sees it, when the files in
\* gone have been removed by another process after the listing.
Vanish(d, gone) ==
    [d EXCEPT !.children = [n \in Names |-> IF n \in gone THEN None ELSE d.children[n]]]

\* total_size(): [e |-> struct after the call, ret |-> returned value,
\* walks |-> disk walks, obs |-> listing summed, panic |-> a metadata call failed]
\* d is the disk at the is_dir test and listing, ds the disk at the stat phase.
total_size(e, d, ds, obs) ==
    IF e.total_size # None
    THEN [e |-> e, ret |-> e.total_size, walks |-> 0, obs |-> obs, panic |-> FALSE]
    ELSE IF is_dir(d)
         THEN LET e1 == files(e, d)
                  failed == \E i \in DOMAIN e1.files : MetadataLen(ds, e1.files[i]) = None
                  total == SumLen(ds, e1.files)
              IN  IF failed
                  THEN [e |-> e1, ret |-> None, walks |-> files_walks(e, d),
                        obs |-> obs, panic |-> TRUE]
                  ELSE [e |-> [e1 EXCEPT !.total_size = total], ret |-> total,
                        walks |-> files_walks(e, d), obs |-> e1.files, panic |-> FALSE]
         ELSE [e |-> e, ret |-> 0, walks |-> 0, obs |-> obs, panic |-> FALSE]

(***************************************************************************)
(* Paths.  A path is the sequence of its components as Path::iter() yields *)
(* them: "/" first for an absolute path, then one string per segment.      *)
(***************************************************************************)
\* Path::starts_with: whole components of base are a prefix of p
starts_with(p, base) ==
    Len(base) <= Len(p) /\ SubSeq(p, 1, Len(base)) = base

\* PathBuf::push: an absolute argument replaces the path
push(p, seg) == IF seg = "/" THEN <<"/">> ELSE Append(p, seg)

RECURSIVE push_all(_, _)
push_all(p, segs) ==
    IF segs = <<>> THEN p ELSE push_all(push(p, Head(segs)), Tail(segs))

\* PathBuf::pop: drops the last component unless the path is a bare root
pop(p) == IF Len(p) > 1 THEN SubSeq(p, 1, Len(p) - 1) ELSE p

\* Iterator::position, 0-based; None when no component equals name
position(v, name) ==
    IF \E i \in DOMAIN v : v[i] = name
    THEN (CHOOSE i \in DOMAIN v : v[i] = name /\ \A j \in 1..(i - 1) : v[j] # name) - 1
    ELSE None

\* CargoCachePaths: the fixed layout below the cargo home
CargoCachePaths(cargo_home) ==
    [cargo_home |-> cargo_home,
     git_checkouts |-> cargo_home \o <<"git", "checkouts">>,
     git_repos_bare |-> cargo_home \o <<"git", "db">>,
     registry_sources |-> cargo_home \o <<"registry", "src">>,
     registry_pkg_cache |-> cargo_home \o <<"registry", "cache">>]

\* SourceKind::Crate(p) and SourceKind::Git(p); a panic of the closure that
\* builds the value is the value Panicked.
Crate(p) == [kind |-> "Crate", path |-> p]
Git(p) == [kind |-> "Git", path |-> p]
Panicked == [kind |-> "Panic", path |-> <<>>]

\* find_crate_name_git: v[(checkouts_pos - 1)..(checkouts_pos + 3)] pushed
\* onto the cargo home
find_crate_name_git(toml_path, cargo_home) ==
    LET v == toml_path
        checkouts_pos == position(v, "checkouts")
    IN  IF checkouts_pos = None \/ checkouts_pos - 1 < 0 \/ checkouts_pos + 3 > Len(v)
        THEN Panicked
        ELSE Git(push_all(cargo_home, SubSeq(v, checkouts_pos, checkouts_pos + 3)))

\* find_crate_name_crate: v[registry_pos..(registry_pos + 4)] pushed onto the
\* cargo home
find_crate_name_crate(toml_path, cargo_home) ==
    LET v == toml_path
        registry_pos == position(v, "registry")
    IN  IF registry_pos = None \/ registry_pos + 4 > Len(v)
        THEN Panicked
        ELSE Crate(push_all(cargo_home, SubSeq(v, registry_pos + 1, registry_pos + 4)))

\* The first map of required_packages: classify the manifest path
classify(toml_path, ccp) ==
    IF starts_with(toml_path, ccp.git_checkouts)
    THEN find_crate_name_git(toml_path, ccp.cargo_home)
    ELSE IF starts_with(toml_path, ccp.registry_sources)
         THEN find_crate_name_crate(toml_path, ccp.cargo_home)
         ELSE Panicked   \* unreachable!()

\* A second map that yields the classified checkout or source folder itself
canonical_identity(sourcekind, ccp) == sourcekind

\* The second map of required_packages: source checkout -> .crate archive,
\* git checkout -> bare repository
canonical(sourcekind, ccp) ==
    IF sourcekind.kind = "Crate"
    THEN LET path == sourcekind.path
         IN  IF Len(path) < 2
             THEN Panicked
             ELSE LET package_name == path[Len(path)]
                      registry == path[Len(path) - 1]
                  IN  Crate(push(push(ccp.registry_pkg_cache, registry),
                                 package_name \o ".crate"))
    ELSE IF sourcekind.kind = "Git"
         THEN LET repo_name == pop(sourcekind.path)
              IN  Git(push(ccp.git_repos_bare, repo_name[Len(repo_name)]))
         ELSE Panicked

\* required_packages without the filter on the cargo home: every manifest
\* path is classified
required_packages_unfiltered(dependencies, ccp) ==
    [i \in DOMAIN dependencies |-> canonical(classify(dependencies[i], ccp), ccp)]

\* required_packages: the iterator chain filter / map / map over the manifest
\* paths of the dependencies, as the sequence it yields when it is consumed.
RECURSIVE required_packages(_, _)
required_packages(dependencies, ccp) ==
    IF dependencies = <<>>
    THEN <<>>
    ELSE LET toml_path == Head(dependencies)
             rest == required_packages(Tail(dependencies), ccp)
         IN  IF starts_with(toml_path, ccp.cargo_home)
             THEN <<canonical(classify(toml_path, ccp), ccp)>> \o rest
             ELSE rest

(***************************************************************************)
(* Spec: one RegistryIndexCache, its callers and the other processes that  *)
(* change the disk.                                                        *)
(***************************************************************************)
GcIdle == [result |-> "none", dry_run |-> FALSE, outcome |-> "none", deps |-> <<>>,
           removed |-> {}, log |-> <<>>, n |-> 0]
NoInput == [root |-> <<>>, origin |-> "none", id |-> "", pkg |-> "", ref |-> "",
            below |-> <<>>]
NoOutput == [kind |-> "none", path |-> <<>>]

EntryInit ==
    /\ disk \in DiskStates
    /\ entry = new
    /\ op = "new"
    /\ ret = None
    /\ walks = 0
    /\ prevRet = None
    /\ sizeCalls = 0
    /\ afterInv = FALSE
    /\ sizeObs = <<>>
    /\ aborted = FALSE

\* The parts of the state a specification does not use stay at these values.
GcUnused ==
    /\ home = [bare |-> {}, crates |-> {}, checkouts |-> {}, sources |-> {}]
    /\ memo = [checkouts |-> None, sources |-> None]
    /\ size_changed = FALSE
    /\ gc = GcIdle

ResolveUnused == rin = NoInput /\ rout = NoOutput

EntryUnused ==
    /\ disk = MissingDisk
    /\ entry = new
    /\ op = "new"
    /\ ret = None
    /\ walks = 0
    /\ prevRet = None
    /\ sizeCalls = 0
    /\ afterInv = FALSE
    /\ sizeObs = <<>>
    /\ aborted = FALSE

\* The six category caches handed to DirSizes::new
CacheNames == {"bin", "bare", "checkouts", "pkg", "index", "sources"}
NoReport == [state |-> "none"]

NoSnapshot ==
    [running |-> {}, done |-> {},
     got |-> [c \in CacheNames |-> None],
     nums |-> [c \in CacheNames |-> None],
     reads |-> [c \in CacheNames |-> 0]]

DirUnused ==
    /\ caches = [c \in CacheNames |-> [dir_size |-> 0, file_number |-> 0]]
    /\ overflow_checks = FALSE
    /\ snap = NoSnapshot
    /\ report = NoReport
    /\ manual = NoReport
    /\ shown = NoReport

RegUnused ==
    /\ registry_caches = [index |-> <<>>, pkg |-> <<>>, sources |-> <<>>]
    /\ regsnap = NoReport
    /\ breakdown = NoReport

Init == EntryInit /\ GcUnused /\ ResolveUnused /\ DirUnused /\ RegUnused

\* Another process changes the disk below the root.
DiskChange ==
    /\ ~aborted
    /\ \E d \in DiskStates : d # disk /\ disk' = d
    /\ op' = "env"
    /\ walks' = 0
    /\ UNCHANGED <<entry, ret, prevRet, sizeCalls, afterInv, sizeObs, aborted>>

CallFiles ==
    /\ ~aborted
    /\ entry' = files(entry, disk)
    /\ walks' = files_walks(entry, disk)
    /\ op' = "files"
    /\ UNCHANGED <<disk, ret, prevRet, sizeCalls, afterInv, sizeObs, aborted>>

CallTotalSize ==
    /\ ~aborted
    /\ \E gone \in SUBSET {n \in Names : disk.children[n] # None} :
         LET ds == Vanish(disk, gone)
             r == total_size(entry, disk, ds, sizeObs)
         IN  /\ (gone # {}) => (entry.total_size = None /\ is_dir(disk))
             /\ disk' = ds
             /\ entry' = r.e
             /\ walks' = r.walks
             /\ sizeObs' = r.obs
             /\ aborted' = r.panic
             /\ IF r.panic
                THEN /\ op' = "panic"
                     /\ UNCHANGED <<ret, prevRet, sizeCalls>>
                ELSE /\ op' = "total_size"
                     /\ ret' = r.ret
                     /\ prevRet' = IF sizeCalls = 0 THEN None ELSE ret
                     /\ sizeCalls' = IF sizeCalls < MaxSizeCalls THEN sizeCalls + 1
                                     ELSE sizeCalls
    /\ UNCHANGED afterInv

CallInvalidate ==
    /\ ~aborted
    /\ entry' = invalidate(entry)
    /\ op' = "invalidate"
    /\ walks' = 0
    /\ prevRet' = None
    /\ sizeCalls' = 0
    /\ afterInv' = TRUE
    /\ sizeObs' = <<>>
    /\ UNCHANGED <<disk, ret, aborted>>

Next ==
    \/ DiskChange /\ UNCHANGED <<gcVars, resolveVars, dirVars, regVars>>
    \/ CallFiles /\ UNCHANGED <<gcVars, resolveVars, dirVars, regVars>>
    \/ CallTotalSize /\ UNCHANGED <<gcVars, resolveVars, dirVars, regVars>>
    \/ CallInvalidate /\ UNCHANGED <<gcVars, resolveVars, dirVars, regVars>>

Spec == Init /\ [][Next]_vars

(***************************************************************************)
(* SpecResolve: the path resolution of clear_unref applied to one manifest *)
(* path.  The input is a cache root and the place of a manifest as cargo   *)
(* lays it out; the output is what required_packages yields for it.        *)
(***************************************************************************)
Roots ==
    { <<"/", "cache">>,
      <<"/", "home", "registry", ".cargo">>,
      <<"/", "home", "checkouts", ".cargo">>,
      <<"/", "checkouts">> }

RegistryIds == {"example.com-abcdef", "mirror-0123"}
Packages == {"foo-1.2.3", "bar-0.1.0"}
RepoIds == {"bar-123abc", "baz-456def"}
Refs == {"deadbee"}
Below == {<<>>, <<"sub">>, <<"sub", "deep">>}

ResolveInputs ==
    {[root |-> r, origin |-> "registry", id |-> i, pkg |-> p, ref |-> "", below |-> b] :
        r \in Roots, i \in RegistryIds, p \in Packages, b \in Below}
    \cup {[root |-> r, origin |-> "git", id |-> i, pkg |-> "", ref |-> f, below |-> b] :
        r \in Roots, i \in RepoIds, f \in Refs, b \in Below}
    \cup {[root |-> r, origin |-> o, id |-> "", pkg |-> "", ref |-> "", below |-> <<>>] :
        r \in Roots, o \in {"local", "other"}}

\* The manifest path cargo metadata reports for a package stored at the input
ManifestPath(i) ==
    IF i.origin = "registry"
    THEN i.root \o <<"registry", "src", i.id, i.pkg>> \o i.below \o <<"Cargo.toml">>
    ELSE IF i.origin = "git"
         THEN i.root \o <<"git", "checkouts", i.id, i.ref>> \o i.below \o <<"Cargo.toml">>
         ELSE IF i.origin = "other"
              THEN i.root \o <<"bin", "tool", "Cargo.toml">>
              ELSE <<"/", "work", "project", "Cargo.toml">>

Filtered == [kind |-> "Filtered", path |-> <<>>]

InitResolve ==
    /\ rin \in ResolveInputs
    /\ rout = NoOutput
    /\ EntryUnused
    /\ GcUnused
    /\ DirUnused
    /\ RegUnused

Resolve ==
    /\ rout = NoOutput
    /\ LET yielded == required_packages(<<ManifestPath(rin)>>, CargoCachePaths(rin.root))
       IN  rout' = IF yielded = <<>> THEN Filtered ELSE yielded[1]
    /\ UNCHANGED rin

NextResolve == Resolve /\ UNCHANGED <<entryVars, gcVars, dirVars, regVars>>

SpecResolve == InitResolve /\ [][NextResolve]_vars

\* C5: a manifest under <root>/registry/src/<identity>/<package>-<version>/
\* resolves to Archive(<root>/registry/cache/<identity>/<package>-<version>.crate),
\* for every cache root, also one that has a segment named registry.
C5_RegistryManifestToArchive ==
    (rout # NoOutput /\ rin.origin = "registry") =>
        rout = Crate(CargoCachePaths(rin.root).registry_pkg_cache
                     \o <<rin.id, rin.pkg \o ".crate">>)

\* C6: a manifest at any depth under <root>/git/checkouts/<repo>/<ref>/
\* resolves to BareRepo(<root>/git/db/<repo>), for every cache root, also one
\* that has a segment named checkouts.
C6_GitManifestToBareRepo ==
    (rout # NoOutput /\ rin.origin = "git") =>
        rout = Git(CargoCachePaths(rin.root).git_repos_bare \o <<rin.id>>)

\* C13: whatever required_packages yields for a dependency is an archive two
\* levels below registry/cache or a bare repository directly below git/db,
\* and never a path inside git/checkouts or registry/src.
C13_RequiredOnlyCanonical ==
    (rout.kind \in {"Crate", "Git"}) =>
        LET ccp == CargoCachePaths(rin.root)
        IN  /\ (rout.kind = "Crate") =>
                 /\ starts_with(rout.path, ccp.registry_pkg_cache)
                 /\ Len(rout.path) = Len(ccp.registry_pkg_cache) + 2
            /\ (rout.kind = "Git") =>
                 /\ starts_with(rout.path, ccp.git_repos_bare)
                 /\ Len(rout.path) = Len(ccp.git_repos_bare) + 1
            /\ ~starts_with(rout.path, ccp.git_checkouts)
            /\ ~starts_with(rout.path, ccp.registry_sources)

\* A manifest in a subfolder of a git checkout has been resolved to a bare
\* repository.
C13_Witness ==
    rout.kind = "Git" /\ rin.origin = "git" /\ rin.below # <<>>

\* The two resolutions on cache roots that have no segment named registry or
\* checkouts.
ResolvesOnPlainRoot ==
    (rout # NoOutput /\ rin.root = <<"/", "cache">>) =>
        /\ rin.origin = "registry" =>
             rout = Crate(<<"/", "cache", "registry", "cache", rin.id, rin.pkg \o ".crate">>)
        /\ rin.origin = "git" => rout = Git(<<"/", "cache", "git", "db", rin.id>>)
        /\ rin.origin = "local" => rout = Filtered
        /\ rin.origin = "other" => rout = Panicked

(***************************************************************************)
(* SpecGC: clear_unref over a cargo home.                                  *)
(*   home.bare       paths of the bare repositories present in git/db      *)
(*   home.crates     paths of the .crate archives present in registry/cache*)
(*   home.checkouts  paths of the checkouts present in git/checkouts       *)
(*   home.sources    paths of the sources present in registry/src          *)
(*   memo            memoized total_size of the checkouts cache and of the  *)
(*                   registry sources caches                               *)
(***************************************************************************)
CacheRoot == <<"/", "cache">>
Ccp == CargoCachePaths(CacheRoot)

GcRepos == {"A", "B", "C"}
GcRegistries == {"example.com-abcdef", "mirror-0123"}
GcPackage == "foo-1.2.3"

BareRepoPath(r) == Ccp.git_repos_bare \o <<r>>
ArchivePath(i) == Ccp.registry_pkg_cache \o <<i, GcPackage \o ".crate">>
AllBareRepos == {BareRepoPath(r) : r \in GcRepos}
AllArchives == {ArchivePath(i) : i \in GcRegistries}

AllCheckouts == {Ccp.git_checkouts \o <<"B", "deadbee">>}
AllSources == {Ccp.registry_sources \o <<"example.com-abcdef", GcPackage>>}

\* Manifest paths that cargo metadata can report for the project
GitManifest(r) == Ccp.git_checkouts \o <<r, "deadbee", "Cargo.toml">>
GitSubManifest(r) == Ccp.git_checkouts \o <<r, "deadbee", "sub", "Cargo.toml">>
RegistryManifest(i) == Ccp.registry_sources \o <<i, GcPackage, "Cargo.toml">>
LocalManifest == <<"/", "work", "project", "Cargo.toml">>
OtherManifest == CacheRoot \o <<"bin", "tool", "Cargo.toml">>

\* metadata.packages: the resolved dependency graphs of the model
DepGraphs ==
    { <<>>,
      <<GitManifest("B")>>,
      <<GitManifest("A"), GitManifest("B")>>,
      <<GitManifest("B"), GitSubManifest("B")>>,
      <<RegistryManifest("example.com-abcdef")>>,
      <<RegistryManifest("mirror-0123")>>,
      <<RegistryManifest("example.com-abcdef"), RegistryManifest("mirror-0123")>>,
      <<RegistryManifest("example.com-abcdef"), GitManifest("B")>>,
      <<LocalManifest>>,
      <<LocalManifest, GitManifest("B")>>,
      <<OtherManifest>>,
      <<GitManifest("B"), OtherManifest>> }

\* Outcomes of get_manifest() and MetadataCommand::exec()
ResolverOutcomes == {"resolved", "no_manifest", "metadata_failed"}

\* The RequiredSet of a dependency graph: the canonical locations that
\* required_packages yields
RequiredOf(deps) ==
    LET req == required_packages(deps, Ccp)
    IN  {req[i] : i \in {j \in DOMAIN req : req[j].kind \in {"Crate", "Git"}}}
RequiredPaths(deps) == {r.path : r \in RequiredOf(deps)}
Unclassified(deps) ==
    \E i \in DOMAIN deps :
        /\ starts_with(deps[i], Ccp.cargo_home)
        /\ ~starts_with(deps[i], Ccp.git_checkouts)
        /\ ~starts_with(deps[i], Ccp.registry_sources)

\* total_size() and invalidate() of the caches handed to clear_unref
cache_total_size(m, bytes) == IF m # None THEN m ELSE bytes
cache_invalidate(m) == None

\* Bytes below a subtree: every checkout and every source folder holds one byte
TreeBytes(tree) == Cardinality(tree)

\* remove_file(path, dry_run, size_changed, ..): [what is left below path,
\* size_changed]
remove_file(tree, dry_run, changed) ==
    IF dry_run
    THEN [left |-> tree, size_changed |-> changed]
    ELSE [left |-> {}, size_changed |-> TRUE]

\* `let remove = true;`
remove_enabled == TRUE

\* `let remove = false;`
remove == FALSE

\* `let dry_run = true;` inside the removal block, shadowing the parameter
dry_run_shadow == TRUE

\* Vec::contains
contains(v, x) == \E i \in DOMAIN v : v[i] = x

\* The partition of required_packages and the two collects: the paths of the
\* Crate values and of the Git values, as the Vecs they are collected into
inner(v) == [i \in DOMAIN v |-> v[i].path]
required_crates(required) == inner(SelectSeq(required, LAMBDA sk : sk.kind = "Crate"))
required_git_repos(required) == inner(SelectSeq(required, LAMBDA sk : sk.kind = "Git"))

\* A filter that compares the file name only, not the whole path
not_required_by_name(in_cache, required) ==
    {p \in in_cache : ~\E i \in DOMAIN required : required[i][Len(required[i])] = p[Len(p)]}

\* The filter of the two removal passes: entries of the cache that the
\* dependency list does not contain
not_required(in_cache, required) == {p \in in_cache : ~contains(required, p)}

\* The for_each of the two removal passes: its closure body is a comment,
\* so it removes none of the entries it is given.
for_each_remove(eligible) == {}

\* What the two removal passes report as failed: the closure has no body, so
\* no failure is collected and Ok(()) carries none.
for_each_failed(eligible) == {}

\* One entry of the order in which an invocation touches the caches:
\*   call   "total_size" | "list" (a read of the cache), "delete" (remove_file
\*          that removes), "dry_run" (remove_file that only reports),
\*          "invalidate", "partition" (required_packages is consumed)
\*   cache  "checkouts" | "sources" | "bare" | "crates" | "required"
Ev(call, cache) == [call |-> call, cache |-> cache]
remove_file_event(dry_run, cache) == Ev(IF dry_run THEN "dry_run" ELSE "delete", cache)

\* What clear_unref hands back when it stops before the removal block
Stopped(h, m, changed, result) ==
    [home |-> h, memo |-> m, size_changed |-> changed, result |-> result,
     removed |-> {}, log |-> <<>>]

\* clear_unref with the removal enabled, honouring its dry_run parameter and
\* removing every bare repository and archive it finds
clear_unref_remove_all(h, m, changed, dry_run, outcome, dependencies) ==
    IF outcome = "no_manifest"
    THEN Stopped(h, m, changed, "Err")
    ELSE IF outcome = "metadata_failed"
         THEN Stopped(h, m, changed, "panic")
         ELSE IF dry_run
              THEN Stopped(h, m, changed, "Ok")
              ELSE [home |-> [h EXCEPT !.bare = {}, !.crates = {}], memo |-> m,
                    size_changed |-> TRUE, result |-> "Ok",
                    removed |-> h.bare \cup h.crates,
                    log |-> <<Ev("delete", "bare"), Ev("delete", "crates")>>]

\* clear_unref with the removal block enabled and honouring its dry_run
\* parameter: checkouts and sources go before required_packages is consumed
clear_unref_ephemeral_first(h, m, changed, dry_run, outcome, dependencies) ==
    IF outcome = "no_manifest"
    THEN Stopped(h, m, changed, "Err")
    ELSE IF outcome = "metadata_failed"
         THEN Stopped(h, m, changed, "panic")
         ELSE LET rm1 == remove_file(h.checkouts, dry_run, changed)
                  rm2 == remove_file(h.sources, dry_run, rm1.size_changed)
                  required == required_packages(dependencies, Ccp)
                  panics == \E i \in DOMAIN required : required[i].kind = "Panic"
              IN  [home |-> [h EXCEPT !.checkouts = rm1.left, !.sources = rm2.left],
                   memo |-> [checkouts |-> cache_invalidate(m.checkouts),
                             sources |-> cache_invalidate(m.sources)],
                   size_changed |-> rm2.size_changed,
                   result |-> IF panics THEN "panic" ELSE "Ok",
                   removed |-> {},
                   log |-> <<Ev("total_size", "checkouts"),
                             remove_file_event(dry_run, "checkouts"),
                             Ev("invalidate", "checkouts"),
                             Ev("total_size", "sources"),
                             remove_file_event(dry_run, "sources"),
                             Ev("invalidate", "sources"),
                             Ev("partition", "required")>>]

\* clear_unref that consumes required_packages, then reads the sizes of the
\* checkouts and sources caches and removes both trees, and never calls
\* invalidate()
clear_unref_stale_sizes(h, m, changed, dry_run, outcome, dependencies) ==
    IF outcome = "no_manifest"
    THEN Stopped(h, m, changed, "Err")
    ELSE IF outcome = "metadata_failed"
         THEN Stopped(h, m, changed, "panic")
         ELSE LET required == required_packages(dependencies, Ccp)
                  panics == \E i \in DOMAIN required : required[i].kind = "Panic"
                  rm1 == remove_file(h.checkouts, dry_run, changed)
                  rm2 == remove_file(h.sources, dry_run, rm1.size_changed)
              IN  IF panics
                  THEN Stopped(h, m, changed, "panic")
                  ELSE [home |-> [h EXCEPT !.checkouts = rm1.left, !.sources = rm2.left],
                        memo |-> [checkouts |->
                                      cache_total_size(m.checkouts, TreeBytes(h.checkouts)),
                                  sources |->
                                      cache_total_size(m.sources, TreeBytes(h.sources))],
                        size_changed |-> rm2.size_changed,
                        result |-> "Ok",
                        removed |-> {},
                        log |-> <<Ev("partition", "required"),
                                  Ev("total_size", "checkouts"),
                                  remove_file_event(dry_run, "checkouts"),
                                  Ev("total_size", "sources"),
                                  remove_file_event(dry_run, "sources")>>]

\* clear_unref: [home, memo, size_changed after the call, result, removed, log]
\*   result   "Ok" | "Err" (returned to the caller) | "panic" (process aborted)
\*   removed  the bare repositories and archives the call deleted
\*   log      the cache calls the invocation made, in the order it made them
clear_unref(h, m, changed, dry_run, outcome, dependencies) ==
    IF outcome = "no_manifest"
    THEN \* get_manifest()? returns the error
         Stopped(h, m, changed, "Err")
    ELSE IF outcome = "metadata_failed"
         THEN \* exec().unwrap_or_else(panic!)
              Stopped(h, m, changed, "panic")
         ELSE IF remove
              THEN LET dry == dry_run_shadow
                       \* git checkouts: total_size(), remove_file, invalidate
                       rm1 == remove_file(h.checkouts, dry, changed)
                       \* registry sources: total_size(), remove_file, invalidate
                       rm2 == remove_file(h.sources, dry, rm1.size_changed)
                       h2 == [h EXCEPT !.checkouts = rm1.left, !.sources = rm2.left]
                       m2 == [checkouts |->
                                 cache_invalidate(
                                     cache_total_size(m.checkouts, TreeBytes(h.checkouts))),
                              sources |->
                                 cache_invalidate(
                                     cache_total_size(m.sources, TreeBytes(h.sources)))]
                       block == <<Ev("total_size", "checkouts"),
                                  remove_file_event(dry, "checkouts"),
                                  Ev("invalidate", "checkouts"),
                                  Ev("total_size", "sources"),
                                  remove_file_event(dry, "sources"),
                                  Ev("invalidate", "sources"),
                                  Ev("partition", "required")>>
                       \* partition consumes required_packages
                       required == required_packages(dependencies, Ccp)
                       panics == \E i \in DOMAIN required : required[i].kind = "Panic"
                       gone == for_each_remove(
                                   not_required(h.bare, required_git_repos(required)))
                               \cup for_each_remove(
                                   not_required(h.crates, required_crates(required)))
                   IN  IF panics
                       THEN [home |-> h2, memo |-> m2, size_changed |-> rm2.size_changed,
                             result |-> "panic", removed |-> {}, log |-> block]
                       ELSE [home |-> [h2 EXCEPT !.bare = h.bare \ gone,
                                                 !.crates = h.crates \ gone],
                             memo |-> m2, size_changed |-> rm2.size_changed,
                             result |-> "Ok", removed |-> gone,
                             log |-> block \o <<Ev("list", "bare"), Ev("list", "crates")>>]
              ELSE \* nothing consumes the lazy required_packages iterator
                   Stopped(h, m, changed, "Ok")

HomeStates ==
    [bare : SUBSET AllBareRepos, crates : SUBSET AllArchives,
     checkouts : SUBSET AllCheckouts, sources : SUBSET AllSources]

InitGC ==
    /\ home \in HomeStates
    /\ memo = [checkouts |-> None, sources |-> None]
    /\ size_changed = FALSE
    /\ gc = GcIdle
    /\ EntryUnused
    /\ ResolveUnused
    /\ DirUnused
    /\ RegUnused

Running == gc.result # "panic"

\* The caller runs clear_unref on the project's resolved dependency graph.
ClearUnref ==
    /\ Running
    /\ \E dry_run \in BOOLEAN, outcome \in ResolverOutcomes, deps \in DepGraphs :
         LET r == clear_unref(home, memo, size_changed, dry_run, outcome, deps)
         IN  /\ (outcome # "resolved") => (deps = <<>>)
             /\ home' = r.home
             /\ memo' = r.memo
             /\ size_changed' = r.size_changed
             /\ gc' = [result |-> r.result, dry_run |-> dry_run, outcome |-> outcome,
                       deps |-> deps, removed |-> r.removed, log |-> r.log,
                       n |-> 1 - gc.n]

\* The accounting reads the size of the git checkouts cache.
CheckoutsTotalSize ==
    /\ Running
    /\ memo' = [memo EXCEPT !.checkouts = cache_total_size(memo.checkouts, TreeBytes(home.checkouts))]
    /\ UNCHANGED <<home, size_changed, gc>>

\* The accounting reads the size of the registry sources caches.
SourcesTotalSize ==
    /\ Running
    /\ memo' = [memo EXCEPT !.sources = cache_total_size(memo.sources, TreeBytes(home.sources))]
    /\ UNCHANGED <<home, size_changed, gc>>

\* Another process (a cargo fetch, a cargo build) changes one part of the home.
HomeChange ==
    /\ \/ \E p \in AllBareRepos :
            home' = [home EXCEPT !.bare = IF p \in @ THEN @ \ {p} ELSE @ \cup {p}]
       \/ \E p \in AllArchives :
            home' = [home EXCEPT !.crates = IF p \in @ THEN @ \ {p} ELSE @ \cup {p}]
       \/ \E p \in AllCheckouts :
            home' = [home EXCEPT !.checkouts = IF p \in @ THEN @ \ {p} ELSE @ \cup {p}]
       \/ \E p \in AllSources :
            home' = [home EXCEPT !.sources = IF p \in @ THEN @ \ {p} ELSE @ \cup {p}]
    /\ UNCHANGED <<memo, size_changed, gc>>

NextGC ==
    \/ ClearUnref /\ UNCHANGED <<entryVars, resolveVars, dirVars, regVars>>
    \/ CheckoutsTotalSize /\ UNCHANGED <<entryVars, resolveVars, dirVars, regVars>>
    \/ SourcesTotalSize /\ UNCHANGED <<entryVars, resolveVars, dirVars, regVars>>
    \/ HomeChange /\ UNCHANGED <<entryVars, resolveVars, dirVars, regVars>>

SpecGC == InitGC /\ [][NextGC]_vars

\* A clear_unref invocation has just returned or aborted in this step.
GcStep == gc'.n # gc.n
Present(h) == h.bare \cup h.crates

\* C1: no archive and no bare repository of the RequiredSet of an invocation
\* is deleted by that invocation, whether it returns or stops part-way.
C1_RequiredNeverDeleted ==
    [][GcStep =>
         /\ gc'.removed \cap RequiredPaths(gc'.deps) = {}
         /\ gc'.removed = Present(home) \ Present(home')
         /\ \A p \in RequiredPaths(gc'.deps) \cap Present(home) : p \in Present(home')]_vars

\* An apply-mode invocation has returned Ok while a required bare repository
\* and a bare repository that is not required were both present.
C1_Witness ==
    /\ gc.result = "Ok" /\ ~gc.dry_run
    /\ RequiredPaths(gc.deps) \cap home.bare # {}
    /\ home.bare \ RequiredPaths(gc.deps) # {}

\* C2: an apply-mode invocation that returns Ok has removed exactly
\* present - required of the bare repositories and of the archives, and every
\* required present entry still exists.
C2_ApplyRemovesPresentMinusRequired ==
    [][(GcStep /\ ~gc'.dry_run /\ gc'.result = "Ok") =>
         /\ Present(home) \ Present(home') = Present(home) \ RequiredPaths(gc'.deps)
         /\ Present(home') = Present(home) \cap RequiredPaths(gc'.deps)]_vars

\* C3: a dry-run invocation deletes nothing, leaves every memoized size as it
\* was and does not set size_changed.
C3_DryRunMutatesNothing ==
    [][(GcStep /\ gc'.dry_run) =>
         (home' = home /\ memo' = memo /\ size_changed' = size_changed)]_vars

\* A dry-run invocation has returned Ok on a home with entries that are not
\* required, while sizes of the checkouts and sources caches were memoized.
C3_Witness ==
    /\ gc.result = "Ok" /\ gc.dry_run
    /\ Present(home) \ RequiredPaths(gc.deps) # {}
    /\ memo.checkouts # None /\ memo.sources # None
    /\ home.checkouts # {}

\* C4: an invocation whose dependency graph has a manifest path under the
\* cache root but under neither git/checkouts nor registry/src ends with an
\* error returned to the caller, never with Ok.
C4_UnclassifiedIsAnError ==
    (gc.result # "none" /\ Unclassified(gc.deps)) => gc.result = "Err"

\* A Vec that holds no value twice
NoDuplicates(v) == \A i, j \in DOMAIN v : v[i] = v[j] => i = j

\* C14: the archive paths and the bare-repository paths that clear_unref
\* collects from required_packages each hold a location once, also when
\* several dependencies resolve to the same location.
C14_RequiredDeduplicated ==
    (gc.result = "Ok" /\ ~Unclassified(gc.deps)) =>
        LET required == required_packages(gc.deps, Ccp)
        IN  /\ NoDuplicates(required_crates(required))
            /\ NoDuplicates(required_git_repos(required))

\* C15: an invocation whose dependency resolution fails (no manifest, or the
\* metadata command fails) returns an error to its caller; the process is not
\* aborted and nothing was deleted.
C15_ResolverFailureIsReturned ==
    (gc.result # "none" /\ gc.outcome # "resolved") =>
        (gc.result = "Err" /\ gc.removed = {} /\ gc.log = <<>>)

EphemeralCaches == {"checkouts", "sources"}
GcCaches == {"bare", "crates", "checkouts", "sources"}

Eligible(h, deps) == Present(h) \ RequiredPaths(deps)

\* C21: an apply-mode invocation that returns Ok has handled every eligible
\* path: the path is gone afterwards and is recorded as removed, also when it
\* was already gone at the delete step.
C21_EligibleRecordedAsRemoved ==
    [][(GcStep /\ ~gc'.dry_run /\ gc'.result = "Ok") =>
         \A p \in Eligible(home, gc'.deps) :
             p \in gc'.removed /\ p \notin Present(home')]_vars

\* C22: an apply-mode invocation that returns Ok reports every eligible path
\* either as removed or as failed, never as both and never as neither.
C22_EveryEligibleReported ==
    [][(GcStep /\ ~gc'.dry_run /\ gc'.result = "Ok") =>
         LET failed == for_each_failed(Eligible(home, gc'.deps))
         IN  \A p \in Eligible(home, gc'.deps) :
                 (p \in gc'.removed) # (p \in failed)]_vars

\* C23: of the archives present, the removal filter keeps <X>/<pkg>.crate
\* exactly when the graph has the package from registry X; the same package
\* required from another registry does not keep it.
C23_ArchiveMatchedWithinIdentity ==
    (gc.result = "Ok" /\ ~Unclassified(gc.deps)) =>
        LET required == required_crates(required_packages(gc.deps, Ccp))
            eligible == not_required(home.crates, required)
        IN  \A i \in GcRegistries :
                (ArchivePath(i) \in home.crates) =>
                    ((ArchivePath(i) \notin eligible)
                        <=> contains(gc.deps, RegistryManifest(i)))

\* An invocation has returned Ok on a graph that requires the package from
\* one registry only, while the archives of both registries were present.
C23_Witness ==
    /\ gc.result = "Ok"
    /\ gc.deps = <<RegistryManifest("mirror-0123")>>
    /\ home.crates = AllArchives

\* The manifest paths of a graph that lie under the cargo home
InCache(deps) == SelectSeq(deps, LAMBDA p : starts_with(p, Ccp.cargo_home))

\* C24: required_packages yields one value per dependency under the cargo
\* home and none for the others; a graph of local dependencies yields nothing,
\* and a dependency outside the cargo home never makes the classification
\* fail.
C24_LocalDependenciesFiltered ==
    (gc.result # "none" /\ gc.outcome = "resolved") =>
        LET req == required_packages(gc.deps, Ccp)
            kept == InCache(gc.deps)
        IN  /\ Len(req) = Len(kept)
            /\ \A i \in DOMAIN req : req[i] = canonical(classify(kept[i], Ccp), Ccp)
            /\ (kept = <<>>) => req = <<>>
            /\ (~Unclassified(gc.deps)) => \A i \in DOMAIN req : req[i].kind # "Panic"

\* An invocation has returned on a graph with a local dependency and a git
\* dependency.
C24_Witness ==
    /\ gc.result = "Ok"
    /\ gc.deps = <<LocalManifest, GitManifest("B")>>

(***************************************************************************)
(* SpecDirSizes: the snapshot of the six category caches.                  *)
(* DirSizes::new forks one closure per cache with nested rayon::join; the  *)
(* closures run in any order.  When all have joined, the sums are taken.   *)
(* u64 addition wraps in a build without overflow checks and panics in a   *)
(* build with them.                                                        *)
(***************************************************************************)
\* DirInfo values a cache can report
DirInfos ==
    { [dir_size |-> 0, file_number |-> 0],
      [dir_size |-> 1, file_number |-> 1],
      [dir_size |-> U64Max, file_number |-> 2] }

\* a + b on u64: [v |-> wrapped value, overflow |-> the sum does not fit]
add_u64(a, b) == [v |-> (a + b) % (U64Max + 1), overflow |-> a + b > U64Max]

\* a + b + c on u64, evaluated left to right
add3_u64(a, b, c) ==
    LET ab == add_u64(a, b)
        abc == add_u64(ab.v, c)
    IN  [v |-> abc.v, overflow |-> ab.overflow \/ abc.overflow]

\* The sums of a DirSizes with the registry operands in the order given
Totals(first, second, third, bare, chk, bin, checks) ==
    LET reg == add3_u64(first, second, third)
        git == add_u64(bare, chk)
        all == add3_u64(reg.v, git.v, bin)
    IN  IF checks /\ (reg.overflow \/ git.overflow
                      \/ all.overflow)
        THEN [state |-> "panic"]
        ELSE [state |-> "built",
              total_size |-> all.v,
              total_reg_size |-> reg.v,
              total_git_db_size |-> git.v]

\* &ccd.cargo_home as Path::display() prints it
root_path == "/home/user/.cargo"

\* The caches the closure of branch b borrows: each closure of the join tree
\* captures the one cache it is named after
Access_shared(b) == IF b = "bin" THEN {"bin", "bare"} ELSE {b}

Access(b) == {b}

\* DirSizes::new after the join: got and nums hold the sizes and numbers the
\* closures read; number_of_items is read when the struct is built
DirSizes_new(got, nums, number_of_items, checks) ==
    LET t == Totals(got["pkg"], got["sources"], got["index"],
                    got["bare"], got["checkouts"], got["bin"], checks)
    IN  IF t.state = "panic" THEN t
        ELSE [state |-> "built",
              total_size |-> t.total_size,
              numb_bins |-> nums["bin"],
              total_bin_size |-> got["bin"],
              total_reg_size |-> t.total_reg_size,
              total_git_db_size |-> t.total_git_db_size,
              total_git_repos_bare_size |-> got["bare"],
              numb_git_repos_bare_repos |-> nums["bare"],
              numb_git_checkouts |-> nums["checkouts"],
              total_git_chk_size |-> got["checkouts"],
              total_reg_cache_size |-> got["pkg"],
              total_reg_src_size |-> got["sources"],
              total_reg_index_size |-> got["index"],
              total_reg_index_num |-> number_of_items,
              numb_reg_cache_entries |-> nums["pkg"],
              numb_reg_src_checkouts |-> nums["sources"],
              root_path |-> root_path]

\* new_manually: the test constructor from six DirInfo
new_manually(di, checks) ==
    LET t == Totals(di["index"].dir_size, di["pkg"].dir_size, di["sources"].dir_size,
                    di["bare"].dir_size, di["checkouts"].dir_size,
                    di["bin"].dir_size, checks)
    IN  IF t.state = "panic" THEN t
        ELSE [state |-> "built",
              total_size |-> t.total_size,
              numb_bins |-> di["bin"].file_number,
              total_bin_size |-> di["bin"].dir_size,
              total_reg_size |-> t.total_reg_size,
              total_git_db_size |-> t.total_git_db_size,
              total_git_repos_bare_size |-> di["bare"].dir_size,
              numb_git_repos_bare_repos |-> di["bare"].file_number,
              numb_git_checkouts |-> di["checkouts"].file_number,
              total_git_chk_size |-> di["checkouts"].dir_size,
              total_reg_cache_size |-> di["pkg"].dir_size,
              total_reg_src_size |-> di["sources"].dir_size,
              total_reg_index_size |-> di["index"].dir_size,
              total_reg_index_num |-> 1,
              numb_reg_cache_entries |-> di["pkg"].file_number,
              numb_reg_src_checkouts |-> di["sources"].file_number,
              root_path |-> root_path]

\* TableLine::new(indent, left, right); right is the u64 handed to file_size,
\* None for the empty string of the first header line
TableLine(indent, left, right) == [indent |-> indent, left |-> left, right |-> right]

\* DirSizes::header
header(r) ==
    <<TableLine(0, "Cargo cache '" \o r.root_path \o "':\n\n", None),
      TableLine(0, "Total: ", r.total_size)>>

\* DirSizes::bin
bin(r) ==
    <<TableLine(1, ToString(r.numb_bins) \o " installed binaries: ", r.total_bin_size)>>

\* DirSizes::git
git(r) ==
    <<TableLine(1, "Git db: ", r.total_git_db_size),
      TableLine(2, ToString(r.numb_git_repos_bare_repos) \o " bare git repos: ",
                r.total_git_repos_bare_size),
      TableLine(2, ToString(r.numb_git_checkouts) \o " git repo checkouts: ",
                r.total_git_chk_size)>>

\* registries_summary that always formats the number of indices
registries_summary_plural(r) ==
    <<TableLine(1, "Registry: ", r.total_reg_size),
      TableLine(2, ToString(r.total_reg_index_num) \o " registry indices: ",
                r.total_reg_index_size),
      TableLine(2, ToString(r.numb_reg_cache_entries) \o " crate archives: ",
                r.total_reg_cache_size),
      TableLine(2, ToString(r.numb_reg_src_checkouts) \o " crate source checkouts: ",
                r.total_reg_src_size)>>

\* DirSizes::registries_summary
registries_summary(r) ==
    <<TableLine(1, "Registry: ", r.total_reg_size),
      TableLine(2, IF r.total_reg_index_num = 1
                   THEN "Registry index: "
                   ELSE ToString(r.total_reg_index_num) \o " registry indices: ",
                r.total_reg_index_size),
      TableLine(2, ToString(r.numb_reg_cache_entries) \o " crate archives: ",
                r.total_reg_cache_size),
      TableLine(2, ToString(r.numb_reg_src_checkouts) \o " crate source checkouts: ",
                r.total_reg_src_size)>>

\* impl Display for DirSizes: the table handed to format_2_row_table
fmt(r) == header(r) \o bin(r) \o registries_summary(r) \o git(r)

\* What the six caches can report: at most MaxNonEmpty of them hold bytes
CacheStates ==
    {f \in [CacheNames -> DirInfos] :
        Cardinality({c \in CacheNames : f[c].dir_size # 0}) <= MaxNonEmpty}

InitDirSizes ==
    /\ caches \in CacheStates
    /\ overflow_checks \in BOOLEAN
    /\ snap = NoSnapshot
    /\ report = NoReport
    /\ manual = NoReport
    /\ shown = NoReport
    /\ EntryUnused
    /\ GcUnused
    /\ ResolveUnused
    /\ RegUnused

\* A worker starts one closure of the rayon::join tree: the closure asks the
\* caches it borrows for total_size().
StartBranch ==
    /\ report = NoReport
    /\ \E b \in CacheNames \ (snap.running \cup snap.done) :
         snap' = [snap EXCEPT
                    !.running = @ \cup {b},
                    !.reads = [c \in CacheNames |->
                                  IF c \in Access(b) THEN @[c] + 1 ELSE @[c]]]
    /\ UNCHANGED <<caches, overflow_checks, report, manual, shown>>

\* A running closure returns the size and, except for the index cache, the
\* number of entries of its cache.
FinishBranch ==
    /\ \E b \in snap.running :
         snap' = [snap EXCEPT
                    !.running = @ \ {b},
                    !.done = @ \cup {b},
                    !.got = [c \in CacheNames |->
                                IF c \in Access(b) THEN caches[c].dir_size ELSE @[c]],
                    !.nums = [c \in CacheNames |->
                                IF c \in Access(b) /\ c # "index"
                                THEN caches[c].file_number ELSE @[c]]]
    /\ UNCHANGED <<caches, overflow_checks, report, manual, shown>>

\* All closures have joined: DirSizes::new takes the sums and builds the struct.
Join ==
    /\ report = NoReport
    /\ snap.done = CacheNames
    /\ report' = DirSizes_new(snap.got, snap.nums, caches["index"].file_number,
                              overflow_checks)
    /\ UNCHANGED <<caches, overflow_checks, snap, manual, shown>>

\* The test constructor builds a DirSizes from the same six DirInfo.
NewManually ==
    /\ manual = NoReport
    /\ manual' = new_manually(caches, overflow_checks)
    /\ UNCHANGED <<caches, overflow_checks, snap, report, shown>>

\* format!("{}", dir_sizes) on one of the two structs
Display ==
    /\ shown = NoReport
    /\ \E r \in {report, manual} :
         /\ r.state = "built"
         /\ shown' = [state |-> "shown", of |-> r, table |-> fmt(r)]
    /\ UNCHANGED <<caches, overflow_checks, snap, report, manual>>

NextDirSizes ==
    \/ StartBranch /\ UNCHANGED <<entryVars, gcVars, resolveVars, regVars>>
    \/ FinishBranch /\ UNCHANGED <<entryVars, gcVars, resolveVars, regVars>>
    \/ Join /\ UNCHANGED <<entryVars, gcVars, resolveVars, regVars>>
    \/ NewManually /\ UNCHANGED <<entryVars, gcVars, resolveVars, regVars>>
    \/ Display /\ UNCHANGED <<entryVars, gcVars, resolveVars, regVars>>

SpecDirSizes == InitDirSizes /\ [][NextDirSizes]_vars

\* The three aggregates of a built DirSizes are the exact sums of its parts.
ExactAggregates(r) ==
    /\ r.total_reg_size =
         r.total_reg_index_size + r.total_reg_cache_size + r.total_reg_src_size
    /\ r.total_git_db_size = r.total_git_repos_bare_size + r.total_git_chk_size
    /\ r.total_size = r.total_reg_size + r.total_git_db_size + r.total_bin_size

\* C11: for every combination of sizes, registry_size = index + archive +
\* source, git_db_size = bare_repo + checkout and grand_total = registry_size
\* + git_db_size + binary_size exactly, and DirSizes::new and new_manually
\* agree on total_size, total_reg_size and total_git_db_size.
C11_AggregateIdentity ==
    /\ report.state = "built" => ExactAggregates(report)
    /\ manual.state = "built" => ExactAggregates(manual)
    /\ (report.state = "built" /\ manual.state = "built") =>
          /\ report.total_size = manual.total_size
          /\ report.total_reg_size = manual.total_reg_size
          /\ report.total_git_db_size = manual.total_git_db_size

\* The identity of C11 when no sum exceeds u64::MAX, and the agreement of the
\* two constructors in every case.
AggregateIdentityWithinU64 ==
    LET fits == caches["index"].dir_size + caches["pkg"].dir_size
                + caches["sources"].dir_size + caches["bare"].dir_size
                + caches["checkouts"].dir_size + caches["bin"].dir_size <= U64Max
    IN  /\ (fits /\ report # NoReport) =>
              (report.state = "built" /\ ExactAggregates(report))
        /\ (fits /\ manual # NoReport) =>
              (manual.state = "built" /\ ExactAggregates(manual))
        /\ (report # NoReport /\ manual # NoReport) =>
              /\ report.state = manual.state
              /\ report.state = "built" =>
                    /\ report.total_size = manual.total_size
                    /\ report.total_reg_size = manual.total_reg_size
                    /\ report.total_git_db_size = manual.total_git_db_size

\* C25: when DirSizes::new builds the struct, total_size() was requested once
\* from each of the six caches; at no moment do two running closures borrow
\* the same cache; and the struct holds what the caches report, whatever the
\* order in which the closures ran.
C25_OncePerCacheAndDisjoint ==
    /\ \A b1, b2 \in snap.running : (b1 # b2) => Access(b1) \cap Access(b2) = {}
    /\ \A c \in CacheNames : snap.reads[c] <= 1
    /\ (report # NoReport) =>
          /\ \A c \in CacheNames : snap.reads[c] = 1
          /\ report = DirSizes_new([c \in CacheNames |-> caches[c].dir_size],
                                   [c \in CacheNames |-> caches[c].file_number],
                                   caches["index"].file_number, overflow_checks)

\* The closures of the binaries cache and of the bare repositories cache are
\* running at the same time, the other four have returned.
C25_Witness ==
    /\ snap.running = {"bin", "bare"}
    /\ snap.done = CacheNames \ {"bin", "bare"}
    /\ caches["bare"].dir_size = U64Max

\* The left column of a table
Labels(table) == [i \in DOMAIN table |-> table[i].left]

\* C29: the default summary lists, for every combination of field values,
\* the rows cache path, Total, installed binaries, Registry, registry index,
\* crate archives, crate source checkouts, Git db, bare git repos, git repo
\* checkouts in this order, and labels the index row `Registry index: `
\* exactly when the number of indices is 1, `<n> registry indices: `
\* otherwise.
C29_SummaryRows ==
    (shown.state = "shown") =>
        LET r == shown.of
        IN  Labels(shown.table) =
              <<"Cargo cache '/home/user/.cargo':\n\n",
                "Total: ",
                ToString(r.numb_bins) \o " installed binaries: ",
                "Registry: ",
                IF r.total_reg_index_num = 1
                THEN "Registry index: "
                ELSE ToString(r.total_reg_index_num) \o " registry indices: ",
                ToString(r.numb_reg_cache_entries) \o " crate archives: ",
                ToString(r.numb_reg_src_checkouts) \o " crate source checkouts: ",
                "Git db: ",
                ToString(r.numb_git_repos_bare_repos) \o " bare git repos: ",
                ToString(r.numb_git_checkouts) \o " git repo checkouts: ">>

\* The summary of a struct with exactly one registry index has been
\* formatted.
C29_Witness ==
    /\ shown.state = "shown"
    /\ shown.of.total_reg_index_num = 1
    /\ shown.of.total_size = 0

(***************************************************************************)
(* SpecRegistries: the per-registry breakdown.                             *)
(*   registry_caches.index    the RegistryIndexCache entries, each with    *)
(*                            the disk below its root                      *)
(*   registry_caches.pkg      the entries of the archive collection        *)
(*   registry_caches.sources  the entries of the source collection         *)
(* An entry has the folder name of its path and the name that name()       *)
(* returns.  The entries of the archive and source collections memoize     *)
(* their size.  Other processes change the disk below the index roots,     *)
(* also between the two total_size() calls registries_seperate makes for   *)
(* an entry.                                                               *)
(***************************************************************************)
\* The folder names of the model, in the order sort() puts them
RegFolders == <<"github", "mirror">>

\* What name() can return
EntryNames == {"", "crates.io"}

\* The disks below an index root
IndexDisks ==
    { MissingDisk,
      [kind |-> "file", len |-> 1, children |-> NoChildren],
      [kind |-> "dir", len |-> 1, children |-> NoChildren],
      [kind |-> "dir", len |-> 1,
       children |-> [n \in Names |-> IF n = "a" THEN 1 ELSE None]] }

\* The folders that registry/index, registry/cache and registry/src hold
Layouts ==
    { [index |-> <<>>, pkg |-> <<>>, sources |-> <<>>],
      [index |-> <<"github">>, pkg |-> <<"github">>, sources |-> <<"github">>],
      [index |-> <<"github", "mirror">>, pkg |-> <<"github">>, sources |-> <<>>],
      [index |-> <<>>, pkg |-> <<"mirror">>, sources |-> <<"github">>],
      [index |-> <<"mirror">>, pkg |-> <<"mirror", "github">>, sources |-> <<"mirror">>],
      [index |-> <<"github">>, pkg |-> <<>>, sources |-> <<"github">>] }

RegistryCacheStates ==
    { [index |-> [i \in DOMAIN l.index |->
                    [folder |-> l.index[i], name |-> nm["index"], e |-> new, disk |-> d]],
       pkg |-> [i \in DOMAIN l.pkg |->
                    [folder |-> l.pkg[i], name |-> nm["pkg"], memo |-> None,
                     bytes |-> b["pkg"], number |-> 1]],
       sources |-> [i \in DOMAIN l.sources |->
                    [folder |-> l.sources[i], name |-> nm["sources"], memo |-> None,
                     bytes |-> b["sources"], number |-> 1]]] :
        l \in Layouts, nm \in [{"index", "pkg", "sources"} -> EntryNames],
        d \in IndexDisks, b \in [{"pkg", "sources"} -> {1, U64Max}] }

\* path().file_name().unwrap().to_str().unwrap().to_string()
file_name(x) == x.folder

\* registries.sort()
RECURSIVE sort_from(_, _)
sort_from(v, k) ==
    IF k > Len(RegFolders) THEN <<>>
    ELSE SelectSeq(v, LAMBDA f : f = RegFolders[k]) \o sort_from(v, k + 1)
sort(v) == sort_from(v, 1)

\* registries.dedup(): consecutive equal elements collapse into one
RECURSIVE dedup(_)
dedup(v) ==
    IF Len(v) <= 1 THEN v
    ELSE IF v[1] = v[2] THEN dedup(Tail(v)) ELSE <<v[1]>> \o dedup(Tail(v))

\* The sum of a sequence of u64 taken with +=, starting from 0
RECURSIVE sum_u64(_)
sum_u64(v) ==
    IF v = <<>> THEN [v |-> 0, overflow |-> FALSE]
    ELSE LET front == sum_u64(SubSeq(v, 1, Len(v) - 1))
             s == add_u64(front.v, v[Len(v)])
         IN  [v |-> s.v, overflow |-> front.overflow \/ s.overflow]

\* The two total_size() calls registries_seperate makes on an index entry:
\* the first for the row, the second for the header total; mid is the disk
\* below the root at the second call.
index_twice(x, mid) ==
    LET first == total_size(x.e, x.disk, x.disk, <<>>)
        second == total_size(first.e, mid, mid, <<>>)
    IN  [entry |-> [x EXCEPT !.e = second.e, !.disk = mid],
         line |-> TableLine(2, "Registry index:", first.ret),
         added |-> second.ret]

\* The two total_size() calls on an entry of the archive or source collection
memo_twice(x, label) ==
    LET first == cache_total_size(x.memo, x.bytes)
        second == cache_total_size(first, x.bytes)
    IN  [entry |-> [x EXCEPT !.memo = first],
         line |-> TableLine(2, ToString(x.number) \o label, first),
         added |-> second]

\* One iteration of `for registry in &registries`: the three filtered loops
\* and the header line
per_registry(registry, caches_, mid) ==
    LET matching(v) == SelectSeq(v, LAMBDA x : file_name(x) = registry)
        idx == matching(caches_.index)
        pkg == matching(caches_.pkg)
        src == matching(caches_.sources)
        calls == [i \in DOMAIN idx |-> index_twice(idx[i], mid[idx[i].folder])]
                 \o [i \in DOMAIN pkg |-> memo_twice(pkg[i], " crate archives: ")]
                 \o [i \in DOMAIN src |-> memo_twice(src[i], " crate source checkouts: ")]
        names == [i \in DOMAIN idx |-> idx[i].name]
                 \o [i \in DOMAIN pkg |-> pkg[i].name]
                 \o [i \in DOMAIN src |-> src[i].name]
        \* if registry_name.is_none() { registry_name = Some(name) }
        registry_name == IF names = <<>> THEN "" ELSE names[1]
        total == sum_u64([i \in DOMAIN calls |-> calls[i].added])
    IN  [registry |-> registry,
         names |-> names,
         added |-> [i \in DOMAIN calls |-> calls[i].added],
         temp_vec |-> [i \in DOMAIN calls |-> calls[i].line],
         header_line |-> TableLine(1, "Registry: " \o registry_name, total.v),
         overflow |-> total.overflow]

RECURSIVE flatten(_)
flatten(groups) ==
    IF groups = <<>> THEN <<>>
    ELSE <<Head(groups).header_line>> \o Head(groups).temp_vec \o flatten(Tail(groups))

\* The collections after registries_seperate: every entry has answered two
\* total_size() calls
after_twice(caches_, mid) ==
    [index |-> [i \in DOMAIN caches_.index |->
                   index_twice(caches_.index[i], mid[caches_.index[i].folder]).entry],
     pkg |-> [i \in DOMAIN caches_.pkg |-> memo_twice(caches_.pkg[i], "").entry],
     sources |-> [i \in DOMAIN caches_.sources |->
                   memo_twice(caches_.sources[i], "").entry]]

\* registries_seperate: the table v, with the locals of each iteration of the
\* outer loop in groups
registries_seperate(caches_, mid, checks) ==
    LET collected == [i \in DOMAIN caches_.index |-> file_name(caches_.index[i])]
                     \o [i \in DOMAIN caches_.pkg |-> file_name(caches_.pkg[i])]
                     \o [i \in DOMAIN caches_.sources |-> file_name(caches_.sources[i])]
        registries == dedup(sort(collected))
        groups == [i \in DOMAIN registries |-> per_registry(registries[i], caches_, mid)]
    IN  IF checks /\ \E i \in DOMAIN groups : groups[i].overflow
        THEN [state |-> "panic"]
        ELSE [state |-> "shown", groups |-> groups, v |-> flatten(groups)]

\* total_size() of a collection: the sum of total_size() of its entries
collection_total_size(sizes) == sum_u64(sizes)

\* The registry part of DirSizes::new: the three collections are asked for
\* their size and total_reg_size is their sum
registry_snapshot(caches_, checks) ==
    LET idx == [i \in DOMAIN caches_.index |->
                   total_size(caches_.index[i].e, caches_.index[i].disk,
                              caches_.index[i].disk, <<>>)]
        reg_index_size == collection_total_size([i \in DOMAIN idx |-> idx[i].ret])
        total_reg_cache_size ==
            collection_total_size([i \in DOMAIN caches_.pkg |->
                cache_total_size(caches_.pkg[i].memo, caches_.pkg[i].bytes)])
        total_reg_src_size ==
            collection_total_size([i \in DOMAIN caches_.sources |->
                cache_total_size(caches_.sources[i].memo, caches_.sources[i].bytes)])
        total_reg_size ==
            add3_u64(total_reg_cache_size.v, total_reg_src_size.v, reg_index_size.v)
        overflow == \/ reg_index_size.overflow \/ total_reg_cache_size.overflow
                    \/ total_reg_src_size.overflow \/ total_reg_size.overflow
    IN  [caches |->
            [index |-> [i \in DOMAIN caches_.index |->
                           [caches_.index[i] EXCEPT !.e = idx[i].e]],
             pkg |-> [i \in DOMAIN caches_.pkg |->
                         [caches_.pkg[i] EXCEPT !.memo = cache_total_size(@, caches_.pkg[i].bytes)]],
             sources |-> [i \in DOMAIN caches_.sources |->
                         [caches_.sources[i] EXCEPT
                             !.memo = cache_total_size(@, caches_.sources[i].bytes)]]],
         report |-> IF checks /\ overflow
                    THEN [state |-> "panic"]
                    ELSE [state |-> "built", total_reg_size |-> total_reg_size.v]]

InitRegistries ==
    /\ registry_caches \in RegistryCacheStates
    /\ regsnap = NoReport
    /\ breakdown = NoReport
    /\ overflow_checks \in BOOLEAN
    /\ caches = [c \in CacheNames |-> [dir_size |-> 0, file_number |-> 0]]
    /\ snap = NoSnapshot
    /\ report = NoReport
    /\ manual = NoReport
    /\ shown = NoReport
    /\ EntryUnused
    /\ GcUnused
    /\ ResolveUnused

RegRunning == breakdown = NoReport /\ regsnap.state # "panic"

\* DirSizes::new takes the snapshot of the registry collections.
RegistrySnapshot ==
    /\ RegRunning
    /\ regsnap = NoReport
    /\ LET r == registry_snapshot(registry_caches, overflow_checks)
       IN  /\ registry_caches' = r.caches
           /\ regsnap' = r.report
    /\ UNCHANGED breakdown

\* Another process changes the disk below the root of one index entry.
IndexDiskChange ==
    /\ RegRunning
    /\ \E i \in DOMAIN registry_caches.index, d \in IndexDisks :
         /\ d # registry_caches.index[i].disk
         /\ registry_caches' = [registry_caches EXCEPT !.index[i].disk = d]
    /\ UNCHANGED <<regsnap, breakdown>>

\* per_registry_summary calls registries_seperate; between the two
\* total_size() calls on an index entry its disk may change to mid[folder].
RegistriesSeperate ==
    /\ RegRunning
    /\ \E mid \in [{RegFolders[k] : k \in DOMAIN RegFolders} -> IndexDisks] :
         /\ \A k \in DOMAIN RegFolders :
              (~\E i \in DOMAIN registry_caches.index :
                    registry_caches.index[i].folder = RegFolders[k])
                  => mid[RegFolders[k]] = MissingDisk
         /\ LET r == registries_seperate(registry_caches, mid, overflow_checks)
            IN  /\ breakdown' = IF r.state = "panic" THEN r
                                 ELSE [state |-> "shown", groups |-> r.groups, v |-> r.v,
                                       after_snapshot |-> regsnap.state = "built"]
                /\ registry_caches' = after_twice(registry_caches, mid)
    /\ UNCHANGED regsnap

NextRegistries ==
    \/ RegistrySnapshot
         /\ UNCHANGED <<entryVars, gcVars, resolveVars, dirVars>>
    \/ IndexDiskChange
         /\ UNCHANGED <<entryVars, gcVars, resolveVars, dirVars>>
    \/ RegistriesSeperate
         /\ UNCHANGED <<entryVars, gcVars, resolveVars, dirVars>>

SpecRegistries == InitRegistries /\ [][NextRegistries]_vars

\* The entries of the three collections whose folder name is f, in category
\* order
EntriesOf(f) ==
    SelectSeq(registry_caches.index, LAMBDA x : file_name(x) = f)
    \o SelectSeq(registry_caches.pkg, LAMBDA x : file_name(x) = f)
    \o SelectSeq(registry_caches.sources, LAMBDA x : file_name(x) = f)

FoldersFound == {RegFolders[k] : k \in {j \in DOMAIN RegFolders : EntriesOf(RegFolders[j]) # <<>>}}

RECURSIVE Sum(_)
Sum(v) == IF v = <<>> THEN 0 ELSE Head(v) + Sum(Tail(v))

\* Position of the header line of group i in the table
HeaderAt(groups, i) == 1 + Sum([j \in 1..(i - 1) |-> 1 + Len(groups[j].temp_vec)])

\* The breakdown has one group per folder found, each folder once, every
\* header line directly before the detail lines of its group, and one detail
\* line per entry of the folder.
GroupedByFolder ==
    (breakdown.state = "shown") =>
        LET groups == breakdown.groups
        IN  /\ {groups[i].registry : i \in DOMAIN groups} = FoldersFound
            /\ \A i, j \in DOMAIN groups : groups[i].registry = groups[j].registry => i = j
            /\ \A i \in DOMAIN groups :
                  /\ Len(groups[i].temp_vec) = Len(EntriesOf(groups[i].registry))
                  /\ breakdown.v[HeaderAt(groups, i)] = groups[i].header_line
                  /\ \A k \in DOMAIN groups[i].temp_vec :
                        breakdown.v[HeaderAt(groups, i) + k] = groups[i].temp_vec[k]

\* C26: whenever registries_seperate is called it returns a table in which
\* every folder name found in one of the three collections has exactly one
\* header line, placed before its detail lines, and the size on the header
\* line is the sum of the sizes of the entries with that folder name.
C26_OneHeaderPerRegistryWithSum ==
    (breakdown # NoReport) =>
        /\ breakdown.state = "shown"
        /\ GroupedByFolder
        /\ \A i \in DOMAIN breakdown.groups :
              breakdown.groups[i].header_line.right = Sum(breakdown.groups[i].added)

\* The first non-empty name of a sequence of names, "" when there is none
RECURSIVE FirstNonEmpty(_)
FirstNonEmpty(names) ==
    IF names = <<>> THEN ""
    ELSE IF Head(names) # "" THEN Head(names) ELSE FirstNonEmpty(Tail(names))

\* C27: the header line of a registry shows the first non-empty name among
\* its entries in the order index, archives, sources.
C27_FirstNonEmptyName ==
    (breakdown.state = "shown") =>
        \A i \in DOMAIN breakdown.groups :
            breakdown.groups[i].header_line.left =
                "Registry: " \o FirstNonEmpty(breakdown.groups[i].names)

\* C28: in a breakdown made after the snapshot, the header totals add up to
\* the snapshot's total_reg_size, and every detail line shows the amount its
\* entry added to the header total, also when the disk changed between the
\* two total_size() calls on the entry.
C28_BreakdownMatchesSnapshot ==
    (breakdown.state = "shown" /\ breakdown.after_snapshot) =>
        /\ Sum([i \in DOMAIN breakdown.groups |-> breakdown.groups[i].header_line.right])
              = regsnap.total_reg_size
        /\ \A i \in DOMAIN breakdown.groups :
              \A k \in DOMAIN breakdown.groups[i].temp_vec :
                  breakdown.groups[i].temp_vec[k].right = breakdown.groups[i].added[k]

\* The same, for the entries of the archive and source collections only
MemoizedRowsMatchHeader ==
    (breakdown.state = "shown") =>
        \A i \in DOMAIN breakdown.groups :
            \A k \in DOMAIN breakdown.groups[i].temp_vec :
                (breakdown.groups[i].temp_vec[k].left # "Registry index:") =>
                    breakdown.groups[i].temp_vec[k].right = breakdown.groups[i].added[k]

(***************************************************************************)
(* Claims about RegistryIndexCache (checked under Spec).                   *)
(***************************************************************************)
\* What a walk of the root finds on the disk, and the bytes it adds up to.
DiskListing(d) == IF path_exists(d) THEN WalkDir(d) ELSE <<>>
DiskBytes(d) == SumLen(d, DiskListing(d))

\* C7: two consecutive total_size() calls with no invalidate() in between
\* return the same value and the second one walks no disk, whatever the root
\* is and however the disk changes between the calls.
C7_Memoization ==
    (op = "total_size" /\ sizeCalls >= 2) => (ret = prevRet /\ walks = 0)

\* C8: the memoized size and the memoized listing are both unset or both set
\* from one disk observation (the size is the sum over exactly the memoized
\* listing), and invalidate() unsets both in one step.
C8_SizeAndListingTogether ==
    /\ (entry.total_size = None) <=> (~entry.files_calculated)
    /\ (entry.total_size # None) => (entry.files = sizeObs)
    /\ (op = "invalidate") => (entry.total_size = None /\ ~entry.files_calculated)

\* C9: the first total_size() after invalidate() returns the bytes of the
\* files on disk at the time of that call, and files() after invalidate()
\* returns the listing of the disk at the time of that call.
C9_InvalidateFreshness ==
    /\ (op = "total_size" /\ afterInv /\ sizeCalls = 1) => (ret = DiskBytes(disk))
    /\ (op = "files" /\ afterInv) => (entry.files = DiskListing(disk))

\* The freshness of C9 on roots that are a directory or missing.
FreshOnDirectoryOrMissingRoot ==
    (op = "total_size" /\ afterInv /\ sizeCalls = 1 /\ disk.kind # "file") =>
        ret = DiskBytes(disk)

\* C10 as stated: with a missing root, files() is empty and total_size() is 0
\* in every memoization state, without abort.
C10_ZeroStateAlways ==
    /\ (op = "files" /\ ~path_exists(disk)) => (entry.files = <<>> /\ ~aborted)
    /\ (op = "total_size" /\ ~path_exists(disk)) => (ret = 0 /\ ~aborted)

\* C10 amended: with a missing root, files() is empty in every memoization
\* state, and total_size() returns 0 when no size is memoized (unpopulated or
\* after invalidate) and the memoized size when one is; neither call aborts.
C10_ZeroStateUnlessMemoized ==
    /\ (op = "files" /\ ~path_exists(disk)) => (entry.files = <<>> /\ ~aborted)
    /\ (op = "total_size" /\ ~path_exists(disk)) =>
          /\ ~aborted
          /\ entry.total_size = None => ret = 0
          /\ entry.total_size # None => (ret = entry.total_size /\ sizeObs # <<>>)

\* total_size() has returned 0 for a missing root after an invalidate(), on an
\* entry that had listed a non-empty root before.
C10_Witness ==
    /\ op = "total_size" /\ ~path_exists(disk) /\ afterInv
    /\ ret = 0 /\ entry.files # <<>>

\* C12: when a file that files() listed has vanished by the time total_size()
\* stats it, total_size() does not abort: it returns the sum over the files
\* that are still there.
C12_VanishedFileIsSkipped ==
    (op = "panic" \/ (op = "total_size" /\ walks = 1)) =>
        (~aborted /\ ret = DiskBytes(disk))

\* C16: a files() call leaves the entry Populated, and a files() or
\* total_size() call that follows it with no invalidate() in between walks no
\* disk; a repeated files() returns the memoized listing.
C16_PopulatedNeverRewalks ==
    [][/\ (op' = "files") => entry'.files_calculated
       /\ (op = "files" /\ op' \in {"files", "total_size"}) => walks' = 0
       /\ (op = "files" /\ op' = "files") => entry'.files = entry.files]_vars

\* C17: total_size() on an entry with no memoized size returns the sum of the
\* byte lengths of the entries files() returns for the same disk, whether the
\* root is a directory, a single regular file or missing.
C17_SizeIsSumOverFiles ==
    (op = "total_size" /\ (walks = 1 \/ entry.total_size = None)) =>
        ret = SumLen(disk, files(entry, disk).files)

\* C18: invalidate() unsets the memoized size and the listing flag, walks no
\* disk, leaves the root path and the disk as they are, and changes nothing
\* on an entry that has nothing memoized.
C18_InvalidateFrame ==
    [][(op' = "invalidate") =>
         /\ entry'.total_size = None /\ ~entry'.files_calculated
         /\ walks' = 0
         /\ disk' = disk
         /\ entry'.path = entry.path
         /\ (entry.total_size = None /\ ~entry.files_calculated) => entry' = entry]_vars

\* invalidate() has just run on an entry that had returned a memoized size of
\* a non-empty directory.
C18_Witness ==
    /\ op = "invalidate" /\ entry.total_size = None
    /\ ret > 0 /\ Len(entry.files) > 1

TypeOK ==
    /\ disk \in DiskStates
    /\ entry.total_size \in {None} \cup Nat
    /\ entry.files_calculated \in BOOLEAN
    /\ aborted \in BOOLEAN
====
